---- MODULE Spec2Model ----
(***************************************************************************)
(* Model of srtm_downloader.py: the export orchestrator                    *)
(* (export_srtm_data -> derive_srtm_data -> export_image) and the task     *)
(* poller (wait_for_tasks / _check_task_completed), run against a remote   *)
(* service whose export tasks advance on their own.                        *)
(***************************************************************************)
EXTENDS Integers, Sequences, FiniteSets, TLC

VARIABLES
    pc,         \* position of the calling thread
    now,        \* wall clock, in seconds (time.time())
    remote,     \* the service's tasks: id -> [state, has_error_message]
    termWhen,   \* history: when each task turned terminal, relative to the wait
    fn,         \* the entry point that was called
    args,       \* arguments of the orchestrator call
    task_ids,   \* wait_for_tasks: parameter
    timeout,    \* wait_for_tasks: parameter
    start,      \* wait_for_tasks: local
    elapsed,    \* wait_for_tasks: local
    idx,        \* wait_for_tasks: position of the list comprehension
    finished,   \* wait_for_tasks: local
    seen,       \* history: the statuses the service returned in this round
    result,     \* return value of wait_for_tasks: "none", "True", "False"
    error,      \* exception raised by the entry point, "none" if none
    calls,      \* every call made to the remote API, in order
    exports,    \* export tasks built by Export.image.toDrive, in order
    out,        \* standard output, in order
    rounds,     \* history: status rounds begun by wait_for_tasks
    sleeps      \* history: time.sleep calls made by wait_for_tasks

vars == <<pc, now, remote, termWhen, fn, args, task_ids, timeout, start, elapsed,
          idx, finished, seen, result, error, calls, exports, out, rounds, sleeps>>

----------------------------------------------------------------------------
(* Bounds of the model *)

MaxTime == 11
MaxStart == 1
MaxTasks == 2

(* Program constants *)

PollInterval == 5
DefaultTimeout == 3600
DefaultNoData == 0
DefaultElevationNoData == 32767
HillshadeAzimuth == 315
HillshadeElevation == 45

----------------------------------------------------------------------------
(* Input domains *)

TaskIds == {"t1", "t2"}
ExportTaskId == "t3"
AllTaskIds == TaskIds \cup {ExportTaskId}
Timeouts == {0, 3, 5}
Latencies == {0, 1}
Resolutions == {30, 90, 10}
Exports == {"elevation", "slope", "aspect", "hillshade", "curvature"}
\* <<no_data, elevation_no_data>>
NoDatas == {<<DefaultNoData, DefaultElevationNoData>>, <<255, -9999>>}
Crss == {"EPSG:4326"}
Aoi == "region"

TaskIdLists == UNION {[1..n -> TaskIds] : n \in 0..MaxTasks}

----------------------------------------------------------------------------
(* The remote service *)

ActiveStates == {"READY", "RUNNING"}
TerminalStates == {"COMPLETED", "CANCELLED", "FAILED"}

Absent == [state |-> "ABSENT", has_error_message |-> FALSE]

\* ee.data.getTaskStatus(task_id)[0]
getTaskStatus(task_id) == remote[task_id]

\* whether the clock is still before the deadline of the wait, if it has one
InTime == IF pc = "idle" \/ timeout = 0 \/ now < start + timeout
          THEN "before" ELSE "after"

\* A task advances on the service: READY -> RUNNING -> COMPLETED | FAILED,
\* or is cancelled there; a failure or cancellation may carry an error message.
RemoteStep ==
    \E t \in AllTaskIds, s \in {"RUNNING"} \cup TerminalStates, m \in BOOLEAN :
        /\ remote[t].state \in ActiveStates
        /\ s = "RUNNING" => remote[t].state = "READY"
        /\ s = "COMPLETED" => remote[t].state = "RUNNING"
        /\ m => s \in {"CANCELLED", "FAILED"}
        /\ remote' = [remote EXCEPT ![t] = [state |-> s, has_error_message |-> m]]
        /\ termWhen' = IF s \in TerminalStates
                       THEN [termWhen EXCEPT ![t] = InTime] ELSE termWhen
        /\ UNCHANGED <<pc, now, fn, args, task_ids, timeout, start, elapsed, idx,
                       finished, seen, result, error, calls, exports, out, rounds, sleeps>>

----------------------------------------------------------------------------
(* Task poller *)

Line(kind, task, val) == [kind |-> kind, task |-> task, val |-> val]

\* variant: a failed or cancelled task is reported as not finished
check_task_completed_failed_pending(task_id, status) ==
    IF status.state \in {"CANCELLED", "FAILED"}
    THEN [ret |-> FALSE,
          printed |-> IF status.has_error_message
                      THEN <<Line("error_message", task_id, 0)>> ELSE <<>>]
    ELSE IF status.state = "COMPLETED"
    THEN [ret |-> TRUE, printed |-> <<>>]
    ELSE [ret |-> FALSE, printed |-> <<>>]

\* _check_task_completed, given the status the service returned
check_task_completed(task_id, status) ==
    IF status.state \in {"CANCELLED", "FAILED"}
    THEN [ret |-> TRUE,
          printed |-> IF status.has_error_message
                      THEN <<Line("error_message", task_id, 0)>> ELSE <<>>]
    ELSE IF status.state = "COMPLETED"
    THEN [ret |-> TRUE, printed |-> <<>>]
    ELSE [ret |-> FALSE, printed |-> <<>>]

\* Python's all()
all(s) == \A i \in 1..Len(s) : s[i]

\* variant: the loop condition without "or timeout == 0"
KeepWaiting_bounded_only == elapsed < timeout

\* the loop condition of wait_for_tasks
KeepWaiting == elapsed < timeout \/ timeout = 0

\* entry of wait_for_tasks: start = time.time(); elapsed = 0
EnterWait(ids, tmo) ==
    /\ task_ids' = ids
    /\ timeout' = tmo
    /\ start' = now
    /\ elapsed' = 0
    /\ idx' = 0
    /\ finished' = <<>>
    /\ seen' = <<>>
    /\ pc' = "while"

\* wait_for_tasks(task_ids, timeout) called directly
WaitForTasks ==
    \E ids \in TaskIdLists, tmo \in Timeouts :
        /\ pc = "idle"
        /\ fn' = "wait_for_tasks"
        /\ EnterWait(ids, tmo)
        /\ UNCHANGED <<now, remote, termWhen, args, result, error, calls, exports,
                       out, rounds, sleeps>>

\* while elapsed < timeout or timeout == 0: elapsed = time.time() - start
BeginRound ==
    /\ pc = "while"
    /\ KeepWaiting
    /\ elapsed' = now - start
    /\ idx' = 1
    /\ finished' = <<>>
    /\ seen' = <<>>
    /\ rounds' = rounds + 1
    /\ pc' = "check"
    /\ UNCHANGED <<now, remote, termWhen, fn, args, task_ids, timeout, start,
                   result, error, calls, exports, out, sleeps>>

\* the loop ends: print the timeout message, return False
TimedOut ==
    /\ pc = "while"
    /\ ~KeepWaiting
    /\ out' = Append(out, Line("stopped_waiting", "", timeout))
    /\ result' = "False"
    /\ pc' = "done"
    /\ UNCHANGED <<now, remote, termWhen, fn, args, task_ids, timeout, start,
                   elapsed, idx, finished, seen, error, calls, exports, rounds, sleeps>>

\* variant: the round stops at the first task that is not finished
CheckTask_short_circuit ==
    \E d \in Latencies :
        /\ pc = "check"
        /\ idx <= Len(task_ids)
        /\ now + d <= MaxTime
        /\ LET task == task_ids[idx]
               r == check_task_completed(task, getTaskStatus(task))
           IN /\ calls' = Append(calls, <<"getTaskStatus", task>>)
              /\ out' = out \o r.printed
              /\ finished' = Append(finished, r.ret)
              /\ seen' = Append(seen, getTaskStatus(task))
              /\ idx' = IF r.ret THEN idx + 1 ELSE Len(task_ids) + 1
        /\ now' = now + d
        /\ UNCHANGED <<pc, remote, termWhen, fn, args, task_ids, timeout, start,
                       elapsed, result, error, exports, rounds, sleeps>>

\* one element of [_check_task_completed(task) for task in task_ids];
\* the status request takes d seconds
CheckTask ==
    \E d \in Latencies :
        /\ pc = "check"
        /\ idx <= Len(task_ids)
        /\ now + d <= MaxTime
        /\ LET task == task_ids[idx]
               r == check_task_completed(task, getTaskStatus(task))
           IN /\ calls' = Append(calls, <<"getTaskStatus", task>>)
              /\ out' = out \o r.printed
              /\ finished' = Append(finished, r.ret)
              /\ seen' = Append(seen, getTaskStatus(task))
        /\ idx' = idx + 1
        /\ now' = now + d
        /\ UNCHANGED <<pc, remote, termWhen, fn, args, task_ids, timeout, start,
                       elapsed, result, error, exports, rounds, sleeps>>

\* if all(finished): print, return True
AllFinished ==
    /\ pc = "check"
    /\ idx > Len(task_ids)
    /\ all(finished)
    /\ out' = Append(out, Line("completed", "", elapsed))
    /\ result' = "True"
    /\ pc' = "done"
    /\ UNCHANGED <<now, remote, termWhen, fn, args, task_ids, timeout, start,
                   elapsed, idx, finished, seen, error, calls, exports, rounds, sleeps>>

\* otherwise time.sleep(5)
Sleep ==
    /\ pc = "check"
    /\ idx > Len(task_ids)
    /\ ~all(finished)
    /\ now + PollInterval <= MaxTime
    /\ now' = now + PollInterval
    /\ sleeps' = sleeps + 1
    /\ pc' = "while"
    /\ UNCHANGED <<remote, termWhen, fn, args, task_ids, timeout, start, elapsed,
                   idx, finished, seen, result, error, calls, exports, out, rounds>>

WaitStep == BeginRound \/ TimedOut \/ CheckTask \/ AllFinished \/ Sleep

----------------------------------------------------------------------------
(* Export orchestrator *)

Op(name, sarg, nargs) == [op |-> name, sarg |-> sarg, nargs |-> nargs]

\* the API calls that build the operations of img that follow those of base
CallsOf(base, img) ==
    [i \in 1..(Len(img) - Len(base)) |->
        <<img[Len(base) + i].op, img[Len(base) + i].sarg>>]

Raise(what, made) == [raised |-> what, value |-> <<>>, calls |-> made]
Return(value, made) == [raised |-> "none", value |-> value, calls |-> made]

\* variant: a resolution outside the two datasets passes the check
valid_resolutions_with_10 == {30, 90, 10}

valid_resolutions == {30, 90}

DatasetOf(resolution) ==
    IF resolution = 30 THEN "USGS/SRTMGL1_003"
    ELSE IF resolution = 90 THEN "CGIAR/SRTM90_V4"
    ELSE "None"

get_srtm_data(resolution) ==
    IF resolution \notin valid_resolutions
    THEN Raise("ValueError: resolution", <<>>)
    ELSE LET srtm == <<Op("ee.Image", DatasetOf(resolution), <<>>)>>
         IN Return(srtm, CallsOf(<<>>, srtm))

get_elevation(srtm, aoi) ==
    srtm \o <<Op("select", "elevation", <<>>), Op("clip", aoi, <<>>)>>

get_slope(srtm, aoi) ==
    get_elevation(srtm, aoi)
        \o <<Op("ee.Terrain.slope", "", <<>>), Op("clip", aoi, <<>>)>>

get_aspect(srtm, aoi) ==
    get_elevation(srtm, aoi)
        \o <<Op("ee.Terrain.aspect", "", <<>>), Op("clip", aoi, <<>>)>>

get_hillshade(srtm, aoi) ==
    get_elevation(srtm, aoi)
        \o <<Op("ee.Terrain.hillshade", "", <<HillshadeAzimuth, HillshadeElevation>>),
             Op("clip", aoi, <<>>)>>

\* returns the four products, keyed by name
derive_srtm_data(aoi, resolution) ==
    LET got == get_srtm_data(resolution)
        srtm_data == got.value
        srtm_elev == get_elevation(srtm_data, aoi)
        srtm_slope == get_slope(srtm_data, aoi)
        srtm_aspect == get_aspect(srtm_data, aoi)
        srtm_hillshade == get_hillshade(srtm_data, aoi)
    IN IF got.raised # "none"
       THEN got
       ELSE Return([elevation |-> srtm_elev, slope |-> srtm_slope,
                    aspect |-> srtm_aspect, hillshade |-> srtm_hillshade],
                   got.calls \o CallsOf(srtm_data, srtm_elev)
                             \o CallsOf(srtm_data, srtm_slope)
                             \o CallsOf(srtm_data, srtm_aspect)
                             \o CallsOf(srtm_data, srtm_hillshade))

\* f"{export_str}_{resolution}"
FileName(export_str, resolution) == export_str \o "_" \o ToString(resolution)

\* export_image up to task.start(): the task it builds and the calls it makes
export_image(export_str, image, aoi, crs, resolution, no_data) ==
    LET filled == Append(image, Op("unmask", "", <<no_data>>))
        task == [image |-> filled,
                 description |-> "export_" \o FileName(export_str, resolution),
                 scale |-> resolution,
                 region |-> aoi,
                 fileNamePrefix |-> FileName(export_str, resolution),
                 crs |-> crs,
                 fileFormat |-> "GeoTIFF",
                 maxPixels |-> "1e13"]
    IN Return(<<task>>,
              CallsOf(image, filled)
                  \o <<<<"ee.batch.Export.image.toDrive", task.fileNamePrefix>>,
                       <<"task.start", ExportTaskId>>>>)

valid_exports == {"elevation", "slope", "aspect", "hillshade"}

\* variant: no check of the export choice; an unknown choice falls through
\* the if/elif chain after the products were derived
export_srtm_data_unchecked(aoi, resolution, export, crs, no_data, elevation_no_data) ==
    LET derived == derive_srtm_data(aoi, resolution)
        d == derived.value
        sent ==
            IF export = "elevation"
            THEN export_image(export, d.elevation, aoi, crs, resolution,
                              elevation_no_data)
            ELSE IF export = "slope"
            THEN export_image(export, d.slope, aoi, crs, resolution, no_data)
            ELSE IF export = "aspect"
            THEN export_image(export, d.aspect, aoi, crs, resolution, no_data)
            ELSE IF export = "hillshade"
            THEN export_image(export, d.hillshade, aoi, crs, resolution, no_data)
            ELSE Return(<<>>, <<>>)
    IN IF derived.raised # "none"
       THEN derived
       ELSE Return(sent.value, derived.calls \o sent.calls)

\* variant: the resolution is checked (by deriving) before the export choice
export_srtm_data_resolution_first(aoi, resolution, export, crs, no_data, elevation_no_data) ==
    LET derived == derive_srtm_data(aoi, resolution)
        d == derived.value
        sent ==
            IF export = "elevation"
            THEN export_image(export, d.elevation, aoi, crs, resolution,
                              elevation_no_data)
            ELSE IF export = "slope"
            THEN export_image(export, d.slope, aoi, crs, resolution, no_data)
            ELSE IF export = "aspect"
            THEN export_image(export, d.aspect, aoi, crs, resolution, no_data)
            ELSE export_image(export, d.hillshade, aoi, crs, resolution, no_data)
    IN IF derived.raised # "none"
       THEN derived
       ELSE IF export \notin {"elevation", "slope", "aspect", "hillshade"}
       THEN Raise("ValueError: export", derived.calls)
       ELSE Return(sent.value, derived.calls \o sent.calls)

\* variant: every product is filled with the general sentinel
export_srtm_data_one_sentinel(aoi, resolution, export, crs, no_data, elevation_no_data) ==
    IF export \notin {"elevation", "slope", "aspect", "hillshade"}
    THEN Raise("ValueError: export", <<>>)
    ELSE LET derived == derive_srtm_data(aoi, resolution)
             d == derived.value
             sent ==
                 IF export = "elevation"
                 THEN export_image(export, d.elevation, aoi, crs, resolution, no_data)
                 ELSE IF export = "slope"
                 THEN export_image(export, d.slope, aoi, crs, resolution, no_data)
                 ELSE IF export = "aspect"
                 THEN export_image(export, d.aspect, aoi, crs, resolution, no_data)
                 ELSE export_image(export, d.hillshade, aoi, crs, resolution, no_data)
         IN IF derived.raised # "none"
            THEN derived
            ELSE Return(sent.value, derived.calls \o sent.calls)

\* export_srtm_data up to the start of the export task
export_srtm_data(aoi, resolution, export, crs, no_data, elevation_no_data) ==
    IF export \notin valid_exports
    THEN Raise("ValueError: export", <<>>)
    ELSE LET derived == derive_srtm_data(aoi, resolution)
             d == derived.value
             sent ==
                 IF export = "elevation"
                 THEN export_image(export, d.elevation, aoi, crs, resolution,
                                   elevation_no_data)
                 ELSE IF export = "slope"
                 THEN export_image(export, d.slope, aoi, crs, resolution, no_data)
                 ELSE IF export = "aspect"
                 THEN export_image(export, d.aspect, aoi, crs, resolution, no_data)
                 ELSE export_image(export, d.hillshade, aoi, crs, resolution, no_data)
         IN IF derived.raised # "none"
            THEN derived
            ELSE Return(sent.value, derived.calls \o sent.calls)

\* get_srtm_data(resolution) called directly
GetSrtmData ==
    \E resolution \in Resolutions :
        /\ pc = "idle"
        /\ fn' = "get_srtm_data"
        /\ args' = [resolution |-> resolution]
        /\ LET r == get_srtm_data(resolution)
           IN /\ calls' = calls \o r.calls
              /\ error' = r.raised
        /\ pc' = "done"
        /\ UNCHANGED <<now, remote, termWhen, task_ids, timeout, start, elapsed,
                       idx, finished, seen, result, exports, out, rounds, sleeps>>

\* export_srtm_data(aoi, resolution, export, crs, no_data, elevation_no_data):
\* it raises, or starts one export task, prints its id and enters
\* wait_for_tasks([task.id]) with the default timeout
ExportSrtmData ==
    \E resolution \in Resolutions, export \in Exports, crs \in Crss,
       nd \in NoDatas :
        /\ pc = "idle"
        /\ fn' = "export_srtm_data"
        /\ args' = [resolution |-> resolution, export |-> export, crs |-> crs,
                    no_data |-> nd[1], elevation_no_data |-> nd[2]]
        /\ LET r == export_srtm_data(Aoi, resolution, export, crs, nd[1], nd[2])
           IN /\ calls' = calls \o r.calls
              /\ error' = r.raised
              /\ IF r.raised # "none"
                 THEN /\ pc' = "done"
                      /\ UNCHANGED <<remote, exports, out, task_ids, timeout,
                                     start, elapsed, idx, finished, seen>>
                 ELSE /\ exports' = exports \o r.value
                      /\ remote' = [remote EXCEPT ![ExportTaskId] =
                                      [state |-> "READY", has_error_message |-> FALSE]]
                      /\ out' = Append(out, Line("task_id", ExportTaskId, 0))
                      /\ EnterWait(<<ExportTaskId>>, DefaultTimeout)
        /\ UNCHANGED <<now, termWhen, result, rounds, sleeps>>

----------------------------------------------------------------------------
Init ==
    /\ pc = "idle"
    /\ now \in 0..MaxStart
    /\ remote = [t \in AllTaskIds |->
                    IF t \in TaskIds
                    THEN [state |-> "RUNNING", has_error_message |-> FALSE]
                    ELSE Absent]
    /\ termWhen = [t \in AllTaskIds |-> "none"]
    /\ fn = "none"
    /\ args = <<>>
    /\ task_ids = <<>>
    /\ timeout = 0
    /\ start = 0
    /\ elapsed = 0
    /\ idx = 0
    /\ finished = <<>>
    /\ seen = <<>>
    /\ result = "none"
    /\ error = "none"
    /\ calls = <<>>
    /\ exports = <<>>
    /\ out = <<>>
    /\ rounds = 0
    /\ sleeps = 0

Next == RemoteStep \/ WaitForTasks \/ GetSrtmData \/ ExportSrtmData \/ BeginRound \/ TimedOut \/ CheckTask
            \/ AllFinished \/ Sleep

Spec == Init /\ [][Next]_vars

----------------------------------------------------------------------------
(* Properties *)

Terminal(t) == remote[t].state \in {"COMPLETED", "CANCELLED", "FAILED"}

\* wait_for_tasks was entered, directly or from export_image
InWait ==
    /\ pc # "idle"
    /\ \/ fn = "wait_for_tasks"
       \/ fn = "export_srtm_data" /\ error = "none"

IsErrorLine(l) == l.kind = "error_message"
IsStatusCall(c) == c[1] = "getTaskStatus"
StatusCalls == SelectSeq(calls, IsStatusCall)
CallsNamed(name) == {k \in 1..Len(calls) : calls[k][1] = name}

ValidProducts == {"elevation", "slope", "aspect", "hillshade"}
InvalidResolution == args.resolution \notin {30, 90}
InvalidProduct == args.export \notin ValidProducts

\* nothing reached the service and the poller was never entered
NothingRemote ==
    /\ calls = <<>>
    /\ exports = <<>>
    /\ remote[ExportTaskId].state = "ABSENT"
    /\ rounds = 0
    /\ result = "none"
    /\ pc = "done"

\* C1: with a timeout > 0, wait_for_tasks returns True only on a status round
\* taken while the elapsed time had not exceeded the timeout, and returns
\* False only if some task was not terminal before the timeout.
C1_TrueWithinTimeoutElseFalse ==
    (InWait /\ timeout > 0) =>
        /\ result = "True" => elapsed <= timeout
        /\ result = "False" =>
              \E i \in 1..Len(task_ids) : termWhen[task_ids[i]] # "before"

\* C2: with timeout = 5 and tasks that are never terminal, wait_for_tasks
\* returns False after one status round and one sleep, about 5 seconds after
\* the call, having printed the timeout message.
C2_FalseAfterOnePollCycle ==
    (/\ InWait
     /\ timeout = 5
     /\ Len(task_ids) >= 1
     /\ \A i \in 1..Len(task_ids) : ~Terminal(task_ids[i])
     /\ result = "False") =>
        /\ rounds = 1
        /\ sleeps = 1
        /\ now - start < 2 * PollInterval
        /\ out[Len(out)] = Line("stopped_waiting", "", 5)

\* C3: with timeout = 0 the wait is unbounded: wait_for_tasks never returns
\* False and never prints the timeout message; every round that did not end
\* the wait is followed by a 5-second sleep and another round, and it returns
\* (True) only when every task of the list is terminal.
C3_ZeroTimeoutUnbounded ==
    (InWait /\ timeout = 0) =>
        /\ result # "False"
        /\ \A k \in 1..Len(out) : out[k].kind # "stopped_waiting"
        /\ pc = "while" => sleeps = rounds
        /\ now - start >= PollInterval * sleeps
        /\ pc = "done" => result = "True"
        /\ result = "True" =>
              /\ \A i \in 1..Len(task_ids) : Terminal(task_ids[i])
              /\ Len(seen) = Len(task_ids)
              /\ \A i \in 1..Len(seen) : seen[i].state \in TerminalStates

C3_Witness == InWait /\ timeout = 0 /\ result = "True" /\ rounds >= 2

\* C4: for a resolution outside {30, 90}, get_srtm_data, and export_srtm_data
\* called with a valid product, raise the resolution ValueError and nothing
\* reaches the service: no dataset fetched, no export task created or
\* started, no status queried.
C4_InvalidResolutionNoRemoteCall ==
    /\ (fn = "get_srtm_data" /\ InvalidResolution) =>
          error = "ValueError: resolution" /\ NothingRemote
    /\ (fn = "export_srtm_data" /\ InvalidResolution /\ ~InvalidProduct) =>
          error = "ValueError: resolution" /\ NothingRemote

C4_Witness ==
    /\ fn = "export_srtm_data"
    /\ args.resolution = 10
    /\ args.export = "hillshade"
    /\ error = "ValueError: resolution"

\* C5: for a product outside {elevation, slope, aspect, hillshade} and any
\* resolution, export_srtm_data raises the product ValueError before
\* anything is derived or submitted, and the poller is never entered.
C5_InvalidProductFailsFirst ==
    (fn = "export_srtm_data" /\ InvalidProduct) =>
        error = "ValueError: export" /\ NothingRemote

C5_Witness ==
    /\ fn = "export_srtm_data"
    /\ args.export = "curvature"
    /\ args.resolution = 30
    /\ error = "ValueError: export"
    /\ pc = "done"

\* C6 as stated: with both an invalid resolution and an invalid product,
\* export_srtm_data raises the resolution error.
C6_ResolutionCheckedFirst ==
    (fn = "export_srtm_data" /\ InvalidResolution /\ InvalidProduct) =>
        error = "ValueError: resolution"

\* C6 as amended: export_srtm_data checks the product first and the
\* resolution second: with both invalid it raises the product error, and
\* the resolution error is raised only for a valid product.
C6_ProductCheckedFirst ==
    fn = "export_srtm_data" =>
        /\ (InvalidResolution /\ InvalidProduct) => error = "ValueError: export"
        /\ error = "ValueError: resolution" => ~InvalidProduct

C6_Witness ==
    /\ fn = "export_srtm_data"
    /\ args.resolution = 10
    /\ args.export = "curvature"
    /\ error = "ValueError: export"

SeenTerminal == \A i \in 1..Len(seen) : seen[i].state \in TerminalStates

\* the error messages attached to the statuses of the current round
SeenMessages ==
    LET marks == [i \in 1..Len(seen) |->
                    Line(IF seen[i].state \in {"CANCELLED", "FAILED"}
                             /\ seen[i].has_error_message
                         THEN "error_message" ELSE "none",
                         task_ids[i], 0)]
    IN SelectSeq(marks, IsErrorLine)

C8_EmptyListWaitsForActiveTasks ==
    (fn = "wait_for_tasks" /\ task_ids = <<>> /\ result = "True") =>
        \A t \in AllTaskIds : remote[t].state \notin {"READY", "RUNNING"}

ExpectedNames ==
    {<<"elevation", 30, "elevation_30">>, <<"elevation", 90, "elevation_90">>,
     <<"slope", 30, "slope_30">>, <<"slope", 90, "slope_90">>,
     <<"aspect", 30, "aspect_30">>, <<"aspect", 90, "aspect_90">>,
     <<"hillshade", 30, "hillshade_30">>, <<"hillshade", 90, "hillshade_90">>}

\* C9: for a valid resolution and product, export_srtm_data submits exactly
\* one export task, built from the dataset of that resolution, named
\* {product}_{resolution}, filled with the elevation sentinel iff the product
\* is elevation; the task is started before any status query and the poller
\* runs with exactly that task id and the 3600 s timeout.
C9_OneExportPerValidRequest ==
    (fn = "export_srtm_data" /\ ~InvalidResolution /\ ~InvalidProduct) =>
        /\ error = "none"
        /\ Len(exports) = 1
        /\ LET image == exports[1].image
           IN /\ image[1] = Op("ee.Image",
                               IF args.resolution = 30 THEN "USGS/SRTMGL1_003"
                               ELSE "CGIAR/SRTM90_V4", <<>>)
              /\ image[Len(image)] =
                    Op("unmask", "",
                       <<IF args.export = "elevation"
                         THEN args.elevation_no_data ELSE args.no_data>>)
        /\ <<args.export, args.resolution, exports[1].fileNamePrefix>>
               \in ExpectedNames
        /\ Cardinality(CallsNamed("ee.batch.Export.image.toDrive")) = 1
        /\ Cardinality(CallsNamed("task.start")) = 1
        /\ \A j \in CallsNamed("ee.batch.Export.image.toDrive"),
              k \in CallsNamed("task.start") : j < k
        /\ \A j \in CallsNamed("task.start"),
              k \in CallsNamed("getTaskStatus") : j < k
        /\ \A k \in CallsNamed("getTaskStatus") : calls[k][2] = ExportTaskId
        /\ remote[ExportTaskId].state # "ABSENT"
        /\ task_ids = <<ExportTaskId>>
        /\ timeout = 3600

C9_Witness ==
    /\ fn = "export_srtm_data"
    /\ args.export = "elevation"
    /\ args.resolution = 30
    /\ args.elevation_no_data = 32767
    /\ args.no_data = 0
    /\ rounds >= 2
    /\ result = "True"

\* every completed round queried every task of the list, in list order
C10_EveryRoundQueriesAll ==
    InWait =>
        LET full == IF pc = "check" THEN rounds - 1 ELSE rounds
            part == IF pc = "check" THEN idx - 1 ELSE 0
        IN /\ Len(StatusCalls) = full * Len(task_ids) + part
           /\ \A k \in 1..Len(StatusCalls) :
                 StatusCalls[k][2] = task_ids[((k - 1) % Len(task_ids)) + 1]

\* a status query prints the task's error message whenever one is attached,
\* whatever earlier rounds printed; the service's tasks change only by the
\* service's own steps or by the orchestrator's submission
C10_QueryStep ==
    /\ (pc = "check" /\ idx' = idx + 1) =>
          LET st == remote[task_ids[idx]]
          IN out' = IF st.state \in {"CANCELLED", "FAILED"} /\ st.has_error_message
                    THEN Append(out, Line("error_message", task_ids[idx], 0))
                    ELSE out
    /\ remote' # remote =>
          \/ pc = "idle" /\ fn' = "export_srtm_data"
          \/ pc' = pc /\ idx' = idx /\ calls' = calls /\ out' = out

\* C10: every poll round queries every task id of the list, in order, with
\* no short-circuit and no memory of earlier rounds, so a failed or cancelled
\* task's message is printed again on each round; wait_for_tasks never
\* changes a task of the service.
C10_RoundsAreMemoryless == []C10_EveryRoundQueriesAll /\ [][C10_QueryStep]_vars

C10_Witness ==
    /\ InWait
    /\ Len(task_ids) = 2
    /\ task_ids[1] # task_ids[2]
    /\ rounds >= 2
    /\ \E t \in AllTaskIds :
          Cardinality({k \in 1..Len(out) :
                          out[k] = Line("error_message", t, 0)}) >= 2
====
